---- MODULE Spec2Model ----
(***************************************************************************)
(* The enclave runner's relay (FortanixVME/enclave-runner/src/server.rs):  *)
(* the accept loop of Server::run, one worker per accepted control         *)
(* connection (handle_client -> read_request -> handle_request_connect),   *)
(* and the select/transfer_data relay loop.                                *)
(*                                                                         *)
(* A worker step is one system call of the code together with the local    *)
(* computation that follows it up to the next system call.  The peers (the *)
(* enclave, the remote) are the environment: what a read returns, whether  *)
(* a call fails and which descriptors select reports are nondeterministic. *)
(***************************************************************************)
EXTENDS Naturals, Sequences, FiniteSets

\* ------------------------------------------------------------------ bounds
MaxSessions == 2      \* control connections the listener is offered
MaxData == 2          \* bytes the peers send on the data channels, all in all

MaxErrorCode == 2     \* largest error code an AESM response carries

\* --------------------------------------------------------- program constants
BUFF_SIZE == 1024
PROXY_BUFF_SIZE == 4192
AESM_SUCCESS == 0

Session == 1..MaxSessions
Ports == 1..MaxSessions          \* ephemeral ports the host can hand out

Min(a, b) == IF a < b THEN a ELSE b

IsPrefix(p, q) == /\ Len(p) <= Len(q)
                  /\ \A i \in 1..Len(p) : p[i] = q[i]

Range(f) == {f[i] : i \in DOMAIN f}

\* The bytes the enclave sends on the data (proxy) connection of session s,
\* and the bytes the remote sends on its connection of session s.  The bytes
\* are pairwise distinct, across positions, directions and sessions.
ProxyStream(s) == [k \in 1..MaxData |-> 100 * s + k]
RemoteStream(s) == [k \in 1..MaxData |-> 100 * s + 50 + k]

\* ----------------------------------------------------------- control stream
\* What is still unread on a control stream: the rest of an encoded request
\* of len bytes, pos of them read already (wellFormed: the len bytes are the
\* CBOR encoding of Request::Connect{addr}); the request arrives whole or cut
\* after cut bytes (cut = 0: never cut); extra more bytes follow it later,
\* and then (fin) the enclave closes its sending direction or keeps it open.
\* reads: the numbers of bytes that the reads of the stream have returned.
Control(len, cut, extra, wellFormed, addr, fin) ==
    [len |-> len, pos |-> 0, cut |-> cut, extra |-> extra,
     wellFormed |-> wellFormed, addr |-> addr, fin |-> fin, reads |-> <<>>]

NoControl == Control(0, 0, 0, FALSE, "none", FALSE)

\* What remains of c once its request has been read whole.
Rest(c) == [Control(0, 0, c.extra, FALSE, "none", c.fin) EXCEPT !.reads = c.reads]

\* What an enclave may send on its control connection: a request, or bytes
\* that are no request.
PlainControls ==
    {Control(30, 0, 0, TRUE, "remote_a", FALSE),
     Control(30, 0, 0, FALSE, "remote_a", FALSE)}

\* The same, and requests that arrive cut in two, that are followed by more
\* bytes, or that are longer than BUFF_SIZE.
Controls ==
    {Control(30, 0, 0, TRUE, "remote_a", FALSE),
     Control(30, 0, 0, FALSE, "remote_a", FALSE),
     Control(30, 10, 0, TRUE, "remote_a", FALSE),
     Control(30, 0, 5, TRUE, "remote_b", TRUE),
     Control(BUFF_SIZE + 30, 0, 0, TRUE, "remote_a", FALSE)}

\* Requests whose length is next to, or a multiple of, BUFF_SIZE: one
\* byte short of it, exactly it (the enclave then keeping its sending
\* direction open, or closing it, or sending more bytes), twice it, longer
\* than twice it, and longer than it but arriving cut.
FramingControls ==
    {Control(BUFF_SIZE - 1, 0, 0, TRUE, "remote_a", FALSE),
     Control(BUFF_SIZE, 0, 0, TRUE, "remote_a", FALSE),
     Control(BUFF_SIZE, 0, 0, TRUE, "remote_b", TRUE),
     Control(BUFF_SIZE, 0, 5, TRUE, "remote_a", FALSE),
     Control(2 * BUFF_SIZE, 0, 0, TRUE, "remote_a", FALSE),
     Control(2 * BUFF_SIZE + 30, 0, 0, TRUE, "remote_a", FALSE),
     Control(BUFF_SIZE + 30, 40, 0, TRUE, "remote_a", FALSE)}

\* ------------------------------------------- attestation-service client
\* (aesm-client/src/lib.rs)  The kinds of request, each with the response
\* variant that answers it: three of the define_aesm_message! pairs.
Kinds == {"getQuote", "initQuote", "getLicToken"}

\* stringify!($response) for the pair of kind k.
ResponseName(k) ==
    IF k = "getQuote" THEN "Response_GetQuoteResponse"
    ELSE IF k = "initQuote" THEN "Response_InitQuoteResponse"
    ELSE "Response_GetLaunchTokenResponse"

\* The body of the response variant of kind k with error code c, and the
\* default body that stands for a variant that is not set.
Body(k, c) == [present |-> TRUE, of |-> k, errorCode |-> c]
NoBody == [present |-> FALSE, of |-> "none", errorCode |-> 0]

\* A Response message: each of its variants is set or not, several may be.
Messages ==
    {m \in [Kinds -> {NoBody} \cup {Body(k, c) : k \in Kinds, c \in 0..MaxErrorCode}] :
        \A k \in Kinds : m[k].present => m[k].of = k}

NoMessage == [k \in Kinds |-> NoBody]

\* ProtobufResult<Response>: a message, or the error of the transport or of
\* the parser.
RawResponses ==
    [tag : {"Ok"}, error : {"none"}, msg : Messages]
      \cup [tag : {"Err"}, error : {"IoError", "WireError"}, msg : {NoMessage}]

NoResponse == [tag |-> "none", error |-> "none", msg |-> NoMessage]

\* Error::aesm_code(code) and Error::aesm_bad_response(expected)
NoError == [kind |-> "none", code |-> 0, expected |-> "none"]
aesm_code(code) == [kind |-> "AesmCode", code |-> code, expected |-> "none"]
aesm_bad_response(expected) ==
    [kind |-> "AesmBadResponse", code |-> 0, expected |-> expected]

\* Result<Self>
Ok(body) == [tag |-> "Ok", body |-> body, error |-> NoError]
Err(e) == [tag |-> "Err", body |-> NoBody, error |-> e]
NoResult == [tag |-> "none", body |-> NoBody, error |-> NoError]

\* res.$has(), res.$take() and body.get_errorCode() of the message r for the
\* pair of kind k: $take gives the body of the variant, the default one when
\* the variant is not set.
has(r, k) == r.msg[k].present
take(r, k) == r.msg[k]
get_errorCode(body) == body.errorCode

\* from_response that hands the body on whatever its error code.
from_response_unchecked(k, r) ==
    IF r.tag = "Ok" /\ has(r, k)
      THEN Ok(take(r, k))
      ELSE Err(aesm_bad_response(ResponseName(k)))

\* FromResponse::from_response of the response type of kind k.
from_response(k, r) ==
    IF r.tag = "Ok" /\ has(r, k)
      THEN LET body == take(r, k) IN
           IF get_errorCode(body) = AESM_SUCCESS
             THEN Ok(body)
             ELSE Err(aesm_code(get_errorCode(body)))
      ELSE Err(aesm_bad_response(ResponseName(k)))

\* ------------------------------------------------------------------ state
VARIABLES
    listener,   \* Server::run: "new", "accepting", "returned", "panicked"
    pc,         \* pc[s]: where the worker of session s is ("none": the
                \* connection is still to come, "absent": it never comes)
    ctl,        \* ctl[s]: what is still unread on the control stream, the
                \* bytes the enclave has still to send included
    remote_addr, \* remote_addr[s]: the addr of the decoded request
    sock,       \* sock[s]: state of the session's sockets
    port,       \* port[s]: port of proxy_server, 0 while not bound
    ctlOut,     \* ctlOut[s]: what has been written to the control stream
    fd_set,     \* fd_set[s]: the descriptors select reported ready that the
                \* loop has not looked at yet
    chunk,      \* chunk[s]: transfer_data's buff[0..n]
    arrived,    \* arrived[s][side]: bytes of the side's stream that have
                \* reached the runner's socket
    inPos,      \* inPos[s][side]: bytes read so far from the side's stream
    eof,        \* eof[s][side]: a read of the side's stream returned 0
    out,        \* out[s][side]: the bytes written to the side's stream
    failure,    \* failure[s]: the call that failed in the worker, or "none"
    request,    \* aesm-client: the kind of the request that was sent
    res,        \* aesm-client: the raw response, the argument of from_response
    result      \* aesm-client: what from_response returned

vars == <<listener, pc, ctl, remote_addr, sock, port, ctlOut, fd_set, chunk,
          arrived, inPos, eof, out, failure, request, res, result>>

\* The state of the attestation-service client, which the relay never
\* touches.
aesm_vars == <<request, res, result>>

Sides == {"proxy", "remote"}
Other(side) == IF side = "proxy" THEN "remote" ELSE "proxy"
Stream(s, side) == IF side = "proxy" THEN ProxyStream(s) ELSE RemoteStream(s)

NoSocks == [enclave |-> "none", remote |-> "none", proxy_server |-> "none",
            proxy |-> "none"]

\* The server as constructed, before run, when n enclaves will connect to
\* it, each to send one of pool on its control connection.
InitRelay(n, pool) ==
    /\ listener = "new"
    /\ pc = [s \in Session |-> IF s <= n THEN "none" ELSE "absent"]
    /\ ctl \in [Session -> pool \cup {NoControl}]
    /\ \A s \in Session : ctl[s] = NoControl <=> s > n
    /\ remote_addr = [s \in Session |-> "none"]
    /\ sock = [s \in Session |-> NoSocks]
    /\ port = [s \in Session |-> 0]
    /\ ctlOut = [s \in Session |-> <<>>]
    /\ fd_set = [s \in Session |-> {}]
    /\ chunk = [s \in Session |-> <<>>]
    /\ arrived = [s \in Session |-> [x \in Sides |-> 0]]
    /\ inPos = [s \in Session |-> [x \in Sides |-> 0]]
    /\ eof = [s \in Session |-> [x \in Sides |-> FALSE]]
    /\ out = [s \in Session |-> [x \in Sides |-> <<>>]]
    /\ failure = [s \in Session |-> "none"]

\* The same, the attestation-service client being left unused.
InitWith(n, pool) ==
    /\ InitRelay(n, pool)
    /\ request = "none"
    /\ res = NoResponse
    /\ result = NoResult

Init == InitWith(MaxSessions, Controls)

\* One enclave only ever connects; two enclaves do.
InitOne == InitWith(1, Controls)
InitTwo == InitWith(2, PlainControls)

\* One enclave connects and sends a request of FramingControls.
InitFraming == InitWith(1, FramingControls)

\* ------------------------------------------------------------ worker exits
\* Every socket the worker holds is closed when its values are dropped.
Dropped(k) == IF k = "none" THEN "none" ELSE "closed"

DropAll(ss) == [x \in DOMAIN ss |-> Dropped(ss[x])]

\* Abort without the shutdown of the control stream.
AbortWithoutShutdown(s, why) ==
    /\ pc' = [pc EXCEPT ![s] = "failed"]
    /\ failure' = [failure EXCEPT ![s] = why]
    /\ sock' = [sock EXCEPT ![s] = [DropAll(sock[s]) EXCEPT !.enclave = "open"]]
    /\ fd_set' = [fd_set EXCEPT ![s] = {}]
    /\ chunk' = [chunk EXCEPT ![s] = <<>>]
    /\ UNCHANGED listener

\* Abort with the error handed on to Server::run, which returns it.
AbortPropagates(s, why) ==
    /\ pc' = [pc EXCEPT ![s] = "failed"]
    /\ failure' = [failure EXCEPT ![s] = why]
    /\ sock' = [sock EXCEPT ![s] = [DropAll(sock[s]) EXCEPT !.enclave = "shutdown"]]
    /\ fd_set' = [fd_set EXCEPT ![s] = {}]
    /\ chunk' = [chunk EXCEPT ![s] = <<>>]
    /\ listener' = "returned"

\* handle_client returned Err(e): the worker closure logs e and shuts the
\* control stream down in both directions; the locals of
\* handle_request_connect were dropped on the way out.  The error goes no
\* further than the closure.
Abort(s, why) ==
    /\ pc' = [pc EXCEPT ![s] = "failed"]
    /\ failure' = [failure EXCEPT ![s] = why]
    /\ sock' = [sock EXCEPT ![s] = [DropAll(sock[s]) EXCEPT !.enclave = "shutdown"]]
    /\ fd_set' = [fd_set EXCEPT ![s] = {}]
    /\ chunk' = [chunk EXCEPT ![s] = <<>>]
    /\ UNCHANGED listener

\* Break that does not leave the loop: the error is dropped.
BreakIgnored(s, why) ==
    /\ pc' = [pc EXCEPT ![s] = "select"]
    /\ failure' = [failure EXCEPT ![s] = why]
    /\ fd_set' = [fd_set EXCEPT ![s] = {}]
    /\ chunk' = [chunk EXCEPT ![s] = <<>>]
    /\ UNCHANGED <<sock, listener>>

\* Break after which handle_client reads the next request.
BreakThenReadAgain(s, why) ==
    /\ pc' = [pc EXCEPT ![s] = "read_request"]
    /\ failure' = [failure EXCEPT ![s] = why]
    /\ sock' = [sock EXCEPT ![s] = [DropAll(sock[s]) EXCEPT !.enclave = "open"]]
    /\ fd_set' = [fd_set EXCEPT ![s] = {}]
    /\ chunk' = [chunk EXCEPT ![s] = <<>>]
    /\ UNCHANGED listener

\* The relay loop was left by break: handle_request_connect and
\* handle_client return Ok(()), the closure ends and every socket is dropped.
Break(s, why) ==
    /\ pc' = [pc EXCEPT ![s] = "done"]
    /\ failure' = [failure EXCEPT ![s] = why]
    /\ sock' = [sock EXCEPT ![s] = DropAll(sock[s])]
    /\ fd_set' = [fd_set EXCEPT ![s] = {}]
    /\ chunk' = [chunk EXCEPT ![s] = <<>>]
    /\ UNCHANGED listener

\* ----------------------------------------------------------------- listener
\* Server::run, T::bind(self.port)?
bind_listener ==
    /\ listener = "new"
    /\ listener' \in {"accepting", "returned"}
    /\ UNCHANGED <<pc, ctl, remote_addr, sock, port, ctlOut, fd_set, chunk,
                   arrived, inPos, eof, out, failure>>
    /\ UNCHANGED aesm_vars

\* The next connection is accepted only when the workers of all earlier
\* ones have ended: handle_client run by the accept loop itself.
NextSessionSequential(s) ==
    /\ pc[s] = "none"
    /\ \A t \in Session :
          t < s => pc[t] \in {"failed", "done", "panicked", "unspawned", "unaccepted"}

\* Sessions are numbered in the order in which their connections are accepted.
NextSession(s) == /\ pc[s] = "none"
                  /\ \A t \in Session : t < s => pc[t] # "none"

\* Server::run, one turn of the loop: T::incoming(&listener).unwrap() returns
\* a stream, and thread::Builder::spawn starts its worker or fails (?).
accept(s) ==
    /\ listener = "accepting"
    /\ NextSession(s)
    /\ \/ /\ pc' = [pc EXCEPT ![s] = "read_request"]
          /\ sock' = [sock EXCEPT ![s].enclave = "open"]
          /\ UNCHANGED listener
       \/ /\ pc' = [pc EXCEPT ![s] = "unspawned"]
          /\ sock' = [sock EXCEPT ![s].enclave = "closed"]
          /\ listener' = "returned"
    /\ UNCHANGED <<ctl, remote_addr, port, ctlOut, fd_set, chunk, arrived,
                   inPos, eof, out, failure>>
    /\ UNCHANGED aesm_vars

\* Server::run: T::incoming(&listener) returns Err for the inbound connection
\* that would have been session s, and unwrap() panics.
accept_fail(s) ==
    /\ listener = "accepting"
    /\ NextSession(s)
    /\ pc' = [pc EXCEPT ![s] = "unaccepted"]
    /\ listener' = "panicked"
    /\ UNCHANGED <<ctl, remote_addr, sock, port, ctlOut, fd_set, chunk,
                   arrived, inPos, eof, out, failure>>
    /\ UNCHANGED aesm_vars

\* ------------------------------------------------------------- read_request
\* The numbers of bytes a read of the control stream c may find arrived:
\* the request up to its cut, the whole request, or the request with the
\* bytes that follow it.
Arrived(c) == {a - c.pos : a \in {x \in {c.cut, c.len, c.len + c.extra} : x > c.pos}}

\* A read that returns 0 whenever nothing has arrived, the stream still
\* open or not.
ReadSizesPolled(c) ==
    {Min(BUFF_SIZE, a) : a \in Arrived(c)}
      \cup (IF Arrived(c) = {} THEN {0} ELSE {})

\* stream.read(&mut buff) with buff of BUFF_SIZE bytes: what has arrived, as
\* far as it fits; 0 at the end of the stream.  No value: the read blocks.
ReadSizes(c) ==
    {Min(BUFF_SIZE, a) : a \in Arrived(c)}
      \cup (IF Arrived(c) = {} /\ c.fin THEN {0} ELSE {})

\* serde_cbor::from_slice(&buff) when buff holds the first c.pos bytes of
\* c: an encoding cut short, an encoding followed by further bytes and a
\* malformed encoding are all errors.
Decodes(c) == c.wellFormed /\ c.pos = c.len

\* The test of read_from_stream that never holds: one read and no more.
MoreToReadNever(n) == FALSE

\* read_from_stream, if n == BUFF_SIZE: the buffer was filled, read again.
MoreToRead(n) == n = BUFF_SIZE

\* One stream.read of read_from_stream and, when it returns fewer than
\* BUFF_SIZE bytes, the rest of read_request and the match of handle_client.
\* While read_from_stream runs, its buff holds the first ctl[s].pos bytes of
\* the stream.
read_from_stream(s) ==
    /\ pc[s] = "read_request"
    /\ \/ \E n \in ReadSizes(ctl[s]) :
            LET c == [ctl[s] EXCEPT !.pos = @ + n, !.reads = Append(@, n)] IN
            IF MoreToRead(n)
              THEN /\ ctl' = [ctl EXCEPT ![s] = c]
                   /\ UNCHANGED <<listener, pc, remote_addr, failure, sock,
                                  fd_set, chunk>>
              ELSE IF Decodes(c)
                     THEN /\ ctl' = [ctl EXCEPT ![s] = Rest(c)]
                          /\ pc' = [pc EXCEPT ![s] = "connect"]
                          /\ remote_addr' = [remote_addr EXCEPT ![s] = c.addr]
                          /\ UNCHANGED <<listener, failure, sock, fd_set, chunk>>
                     ELSE /\ ctl' = [ctl EXCEPT ![s] = c]
                          /\ Abort(s, "decode")
                          /\ UNCHANGED remote_addr
       \/ /\ Abort(s, "read_request")
          /\ UNCHANGED <<ctl, remote_addr>>
    /\ UNCHANGED <<port, ctlOut, arrived, inPos, eof, out>>
    /\ UNCHANGED aesm_vars

\* ---------------------------------------------------- handle_request_connect
\* connect whose error is not returned: the worker goes on to bind.
connect_lenient(s) ==
    /\ pc[s] = "connect"
    /\ pc' = [pc EXCEPT ![s] = "bind"]
    /\ \/ /\ sock' = [sock EXCEPT ![s].remote = "open"]
          /\ UNCHANGED failure
       \/ /\ failure' = [failure EXCEPT ![s] = "connect"]
          /\ UNCHANGED sock
    /\ UNCHANGED <<listener, fd_set, chunk, ctl, remote_addr, port, ctlOut,
                   arrived, inPos, eof, out>>
    /\ UNCHANGED aesm_vars

\* TcpStream::connect(remote_addr)?
connect(s) ==
    /\ pc[s] = "connect"
    /\ \/ /\ pc' = [pc EXCEPT ![s] = "bind"]
          /\ sock' = [sock EXCEPT ![s].remote = "open"]
          /\ UNCHANGED <<listener, failure, fd_set, chunk>>
       \/ Abort(s, "connect")
    /\ UNCHANGED <<ctl, remote_addr, port, ctlOut, arrived, inPos, eof, out>>
    /\ UNCHANGED aesm_vars

\* The ports the host may assign to a new listener: those no listening
\* socket holds.  Ports are told apart by nothing but their being equal or
\* not, so the host is taken to hand out the least of them.
FreePorts == {p \in Ports : \A t \in Session :
                 sock[t].proxy_server = "listening" => port[t] # p}

\* The least port of all, held by a listening socket or not.
AssignedPortAny == CHOOSE p \in Ports : \A q \in Ports : p <= q

AssignedPort == CHOOSE p \in FreePorts : \A q \in FreePorts : p <= q

\* TcpListener::bind("127.0.0.1:0")? and proxy_server.local_addr()?.port()
bind(s) ==
    /\ pc[s] = "bind"
    /\ \/ /\ FreePorts # {}
          /\ port' = [port EXCEPT ![s] = AssignedPort]
          /\ pc' = [pc EXCEPT ![s] = "respond"]
          /\ sock' = [sock EXCEPT ![s].proxy_server = "listening"]
          /\ UNCHANGED <<listener, failure, fd_set, chunk>>
       \/ /\ Abort(s, "bind")
          /\ UNCHANGED port
    /\ UNCHANGED <<ctl, remote_addr, ctlOut, arrived, inPos, eof, out>>
    /\ UNCHANGED aesm_vars

\* enclave.local() and enclave.peer(): the two ends of the control stream.
LocalAddr(s) == <<"runner", 0>>
PeerAddr(s) == <<"enclave", s>>

\* Connected with the two ends of the control stream taken for each other.
ConnectedSwapped(s) == [port |-> port[s], local_addr |-> PeerAddr(s),
                        peer_addr |-> LocalAddr(s)]

\* Response::Connected{port: proxy_server_port, local_addr, peer_addr}
Connected(s) == [port |-> port[s], local_addr |-> LocalAddr(s),
                 peer_addr |-> PeerAddr(s)]

\* serde_cbor::ser::to_vec(&response): the encoding of an enum value, the
\* name of its variant followed by the variant's fields.
Encode(r) == <<"Connected", r>>

\* enclave.local()?, enclave.peer()? and enclave.write(..)?: a write
\* returns the number of bytes it has taken, at least one and at most all.
respond(s) ==
    /\ pc[s] = "respond"
    /\ \/ /\ \E k \in 1..Len(Encode(Connected(s))) :
                ctlOut' = [ctlOut EXCEPT ![s] = SubSeq(Encode(Connected(s)), 1, k)]
          /\ pc' = [pc EXCEPT ![s] = "accept"]
          /\ UNCHANGED <<listener, failure, sock, fd_set, chunk>>
       \/ /\ Abort(s, "respond")
          /\ UNCHANGED ctlOut
    /\ UNCHANGED <<ctl, remote_addr, port, arrived, inPos, eof, out>>
    /\ UNCHANGED aesm_vars

\* accept_data taken before the response is written.
accept_data_early(s) ==
    /\ pc[s] \in {"respond", "accept"}
    /\ pc' = [pc EXCEPT ![s] = "select"]
    /\ sock' = [sock EXCEPT ![s].proxy = "open"]
    /\ UNCHANGED <<listener, failure, fd_set, chunk, ctl, remote_addr, port,
                   ctlOut, arrived, inPos, eof, out>>
    /\ UNCHANGED aesm_vars

\* proxy_server.incoming().next().unwrap()?, after which the loop is entered.
accept_data(s) ==
    /\ pc[s] = "accept"
    /\ \/ /\ pc' = [pc EXCEPT ![s] = "select"]
          /\ sock' = [sock EXCEPT ![s].proxy = "open"]
          /\ UNCHANGED <<listener, failure, fd_set, chunk>>
       \/ Abort(s, "accept")
    /\ UNCHANGED <<ctl, remote_addr, port, ctlOut, arrived, inPos, eof, out>>
    /\ UNCHANGED aesm_vars

\* --------------------------------------------------------------- relay loop
ReadPc(side) == IF side = "proxy" THEN "read_proxy" ELSE "read_remote"
WritePc(side) == IF side = "proxy" THEN "write_proxy" ELSE "write_remote"

\* Where the loop goes on when F are the ready descriptors it has still to
\* look at: the proxy is looked at first, the remote second.
Continue(F) ==
    IF "proxy" \in F THEN "read_proxy"
    ELSE IF "remote" \in F THEN "read_remote"
    ELSE "select"

\* The descriptors still to look at once the loop is at Continue(F).
Pending(F) == IF "proxy" \in F THEN F \ {"proxy"} ELSE {}

\* The bytes that have reached the data sockets so far, all in all.
RECURSIVE SumArrived(_)
SumArrived(S) ==
    IF S = {} THEN 0
    ELSE LET s == CHOOSE x \in S : TRUE
         IN  arrived[s]["proxy"] + arrived[s]["remote"] + SumArrived(S \ {s})

\* The peer of a data socket of session s sends n bytes, which reach the
\* socket.  The worker looks at its sockets in select and in read only:
\* bytes that arrive while it is elsewhere are taken to arrive when it is
\* next at select.
arrive(s, side) ==
    /\ pc[s] = "select"
    /\ ~eof[s][side]
    /\ \E n \in 1..(MaxData - SumArrived(Session)) :
          arrived' = [arrived EXCEPT ![s][side] = @ + n]
    /\ UNCHANGED <<listener, pc, ctl, remote_addr, sock, port, ctlOut, fd_set,
                   chunk, inPos, eof, out, failure>>
    /\ UNCHANGED aesm_vars

\* Ready descriptors when remote_socket is not among those watched.
DataReadyProxyOnly(s) == {x \in {"proxy"} : arrived[s][x] > inPos[s][x]}

\* The descriptors of session s that are ready because bytes wait on them:
\* both proxy and remote_socket are in the fd_set handed to select.
DataReady(s) == {x \in Sides : arrived[s][x] > inPos[s][x]}

\* select(None, Some(&mut fd_set), None, None, None).unwrap(): it returns
\* with the ready descriptors in fd_set, which are all those on which bytes
\* wait and any on which the end of the stream or an error waits; or it
\* fails and the worker panics, which unwinds the worker's thread and no
\* other.
select(s) ==
    /\ pc[s] = "select"
    /\ \/ \E F \in (SUBSET Sides) \ {{}} :
            /\ DataReady(s) \subseteq F
            /\ fd_set' = [fd_set EXCEPT ![s] = Pending(F)]
            /\ pc' = [pc EXCEPT ![s] = Continue(F)]
            /\ UNCHANGED <<sock, failure>>
       \/ /\ pc' = [pc EXCEPT ![s] = "panicked"]
          /\ failure' = [failure EXCEPT ![s] = "select"]
          /\ sock' = [sock EXCEPT ![s] = DropAll(sock[s])]
          /\ UNCHANGED fd_set
    /\ UNCHANGED <<listener, ctl, remote_addr, port, ctlOut, chunk, arrived,
                   inPos, eof, out>>
    /\ UNCHANGED aesm_vars

\* transfer_data returned Ok(n): the loop goes on.
Transferred(s) ==
    /\ pc' = [pc EXCEPT ![s] = Continue(fd_set[s])]
    /\ fd_set' = [fd_set EXCEPT ![s] = Pending(@)]
    /\ UNCHANGED <<listener, sock, failure>>

\* Chunk read from the sockets of the first session, whatever the session.
ChunkShared(s, side, n) ==
    SubSeq(Stream(1, side), inPos[s][side] + 1, inPos[s][side] + n)

\* buff[0..n] of transfer_data after src.read returned n.
Chunk(s, side, n) == SubSeq(Stream(s, side), inPos[s][side] + 1, inPos[s][side] + n)

\* transfer_data without its test n > 0: a read of no bytes is followed by
\* a write of no bytes.
transfer_read_unguarded(s, side) ==
    /\ pc[s] = ReadPc(side)
    /\ \/ /\ \E n \in 1..Min(PROXY_BUFF_SIZE, arrived[s][side] - inPos[s][side]) :
                /\ chunk' = [chunk EXCEPT ![s] = Chunk(s, side, n)]
                /\ inPos' = [inPos EXCEPT ![s][side] = @ + n]
          /\ pc' = [pc EXCEPT ![s] = WritePc(Other(side))]
          /\ UNCHANGED <<listener, eof, sock, failure, fd_set>>
       \/ /\ arrived[s][side] = inPos[s][side]
          /\ eof' = [eof EXCEPT ![s][side] = TRUE]
          /\ pc' = [pc EXCEPT ![s] = WritePc(Other(side))]
          /\ UNCHANGED <<listener, sock, failure, fd_set, chunk, inPos>>
       \/ /\ Break(s, "read")
          /\ UNCHANGED <<inPos, eof>>
    /\ UNCHANGED <<ctl, remote_addr, port, ctlOut, arrived, out>>
    /\ UNCHANGED aesm_vars

\* transfer_data, src.read(&mut buff[..])?: n > 0 of the bytes that wait,
\* as far as they fit into buff; or 0 when none waits, at the end of the
\* stream (Ok(0) is returned without a write); or an error.
transfer_read(s, side) ==
    /\ pc[s] = ReadPc(side)
    /\ \/ /\ \E n \in 1..Min(PROXY_BUFF_SIZE, arrived[s][side] - inPos[s][side]) :
                /\ chunk' = [chunk EXCEPT ![s] = Chunk(s, side, n)]
                /\ inPos' = [inPos EXCEPT ![s][side] = @ + n]
          /\ pc' = [pc EXCEPT ![s] = WritePc(Other(side))]
          /\ UNCHANGED <<listener, eof, sock, failure, fd_set>>
       \/ /\ arrived[s][side] = inPos[s][side]
          /\ eof' = [eof EXCEPT ![s][side] = TRUE]
          /\ Transferred(s)
          /\ UNCHANGED <<chunk, inPos>>
       \/ /\ Break(s, "read")
          /\ UNCHANGED <<inPos, eof>>
    /\ UNCHANGED <<ctl, remote_addr, port, ctlOut, arrived, out>>
    /\ UNCHANGED aesm_vars

\* Written with the new bytes put first.
WrittenFront(o, c) == c \o o

\* What dst has been sent once the bytes c are written after the bytes o.
Written(o, c) == o \o c

\* The chunk written with one dst.write, which may take only the first k of
\* its bytes, the others being dropped.
transfer_write_once(s, side) ==
    /\ pc[s] = WritePc(side)
    /\ \/ /\ \E k \in 1..Len(chunk[s]) :
                out' = [out EXCEPT ![s][side] = Written(@, SubSeq(chunk[s], 1, k))]
          /\ chunk' = [chunk EXCEPT ![s] = <<>>]
          /\ Transferred(s)
       \/ /\ UNCHANGED out
          /\ Break(s, "write")
    /\ UNCHANGED <<ctl, remote_addr, port, ctlOut, arrived, inPos, eof>>
    /\ UNCHANGED aesm_vars

\* transfer_data, dst.write_all(&buff[0..n])?: all of the chunk is written,
\* or an error after only the first k < n bytes were.
transfer_write(s, side) ==
    /\ pc[s] = WritePc(side)
    /\ \/ /\ out' = [out EXCEPT ![s][side] = Written(@, chunk[s])]
          /\ chunk' = [chunk EXCEPT ![s] = <<>>]
          /\ Transferred(s)
       \/ /\ \E k \in 0..(Len(chunk[s]) - 1) :
                out' = [out EXCEPT ![s][side] = Written(@, SubSeq(chunk[s], 1, k))]
          /\ Break(s, "write")
    /\ UNCHANGED <<ctl, remote_addr, port, ctlOut, arrived, inPos, eof>>
    /\ UNCHANGED aesm_vars

\* ------------------------------------------------------------ specification
Next ==
    \/ bind_listener
    \/ \E s \in Session :
          \/ accept(s)
          \/ accept_fail(s)
          \/ read_from_stream(s)
          \/ connect(s)
          \/ bind(s)
          \/ respond(s)
          \/ accept_data(s)
          \/ select(s)
          \/ \E side \in Sides :
                \/ arrive(s, side)
                \/ transfer_read(s, side)
                \/ transfer_write(s, side)

Spec == Init /\ [][Next]_vars

SpecOne == InitOne /\ [][Next]_vars

SpecTwo == InitTwo /\ [][Next]_vars

SpecFraming == InitFraming /\ [][Next]_vars

\* The relay is not run; a request of some kind was sent to AESM and some raw
\* response is at hand.
InitAesm ==
    /\ InitRelay(0, {})
    /\ request \in Kinds
    /\ res \in RawResponses
    /\ result = NoResult

\* The raw response is converted into the typed response of the request.
call_from_response ==
    /\ result = NoResult
    /\ request \in Kinds
    /\ result' = from_response(request, res)
    /\ UNCHANGED <<listener, pc, ctl, remote_addr, sock, port, ctlOut, fd_set,
                   chunk, arrived, inPos, eof, out, failure, request, res>>

NextAesm == call_from_response

SpecAesm == InitAesm /\ [][NextAesm]_vars

\* A step of the relay loop of session s that the worker takes whenever it
\* can: select returns once bytes wait on a descriptor, a read of a
\* descriptor reported ready returns, and a write returns when the peer
\* takes the bytes or the connection fails.
RelayStep(s) ==
    \/ DataReady(s) # {} /\ select(s)
    \/ \E side \in Sides : transfer_read(s, side) \/ transfer_write(s, side)

\* One connection, the worker's thread being scheduled again and again and
\* the peers taking what is written to them.
SpecLive == InitOne /\ [][Next]_vars /\ \A s \in Session : WF_vars(RelayStep(s))

\* ------------------------------------------------------------------- claims
RelayPcs == {"select", "read_proxy", "write_remote", "read_remote", "write_proxy"}
EndedPcs == {"failed", "done", "panicked"}

\* Some byte of session s has been read from, or written to, a data stream.
Relayed(s) == \/ chunk[s] # <<>>
              \/ \E x \in Sides : inPos[s][x] > 0 \/ out[s][x] # <<>>

\* C1: within a session the request is read and decoded before any of the
\* response is written, the response is written before the data connection
\* is accepted, and the data connection is accepted before the relay loop
\* runs and before any byte is relayed.
C1_SessionOrder ==
    \A s \in Session :
        /\ ctlOut[s] # <<>> => remote_addr[s] # "none"
        /\ sock[s].proxy # "none" => ctlOut[s] # <<>>
        /\ pc[s] \in RelayPcs => sock[s].proxy = "open"
        /\ Relayed(s) => sock[s].proxy # "none"

C1_Witness ==
    \E s \in Session : pc[s] = "select" /\ out[s]["remote"] # <<>>

\* C2: a read of length zero from either data stream ends the relay loop:
\* once such a read has happened the worker is at no place of the loop.
C2_ZeroReadEndsRelay ==
    \A s \in Session : \A x \in Sides : eof[s][x] => pc[s] \notin RelayPcs

\* C3: what the relay has written to the remote is a prefix of what it has
\* read from the proxy stream, itself a prefix of what the enclave sends, and
\* what it has written to the proxy is a prefix of what it has read from the
\* remote stream.
C3_BytePump ==
    \A s \in Session : \A x \in Sides :
        /\ inPos[s][x] <= Len(Stream(s, x))
        /\ IsPrefix(out[s][Other(x)], SubSeq(Stream(s, x), 1, inPos[s][x]))

C3_Witness ==
    \E s \in Session : Len(out[s]["remote"]) = 2 /\ pc[s] = "select"

\* C4: a read or write error during the relay ends the loop: the worker that
\* met one is done for good, at no place where it reads or writes.
C4_RelayErrorEndsLoop ==
    \A s \in Session :
        failure[s] \in {"read", "write"} => pc[s] = "done"

C4_Witness ==
    \E s \in Session : failure[s] = "write" /\ out[s]["remote"] # <<>>

\* C5: a request that does not decode aborts the session with nothing done:
\* no connection to a remote, no ephemeral listener, no data connection, no
\* byte of a response, and the control stream shut down.
C5_DecodeFailureAborts ==
    \A s \in Session :
        failure[s] = "decode" =>
            /\ pc[s] = "failed"
            /\ sock[s] = [NoSocks EXCEPT !.enclave = "shutdown"]
            /\ port[s] = 0
            /\ ctlOut[s] = <<>>
            /\ ~Relayed(s)

C5_Witness ==
    \E s \in Session :
        failure[s] = "decode" /\ ~ctl[s].wellFormed /\ ctl[s].pos = ctl[s].len

\* C6: when the connection to the requested address fails the session is
\* aborted: no byte of a response is written, no ephemeral listener is
\* bound, no data connection is accepted, and the control stream is shut
\* down.
C6_ConnectFailureAborts ==
    \A s \in Session :
        failure[s] = "connect" =>
            /\ pc[s] = "failed"
            /\ ctlOut[s] = <<>>
            /\ sock[s].proxy_server = "none" /\ port[s] = 0
            /\ sock[s].proxy = "none"
            /\ sock[s].enclave = "shutdown"

C6_Witness ==
    \E s \in Session : failure[s] = "connect" /\ remote_addr[s] # "none"

\* The state of session s.
SessionState(s) == <<pc[s], ctl[s], remote_addr[s], sock[s], port[s], ctlOut[s],
                     fd_set[s], chunk[s], arrived[s], inPos[s], eof[s], out[s],
                     failure[s]>>

\* C7: a step in which a worker ends (by an error, a panic, or the end of its
\* relay) leaves the listener and every other session as they are.
C7_ErrorContainment ==
    [][\A s \in Session :
          (pc[s] \notin EndedPcs /\ pc'[s] \in EndedPcs) =>
              /\ listener' = listener
              /\ \A t \in Session \ {s} : SessionState(t)' = SessionState(t)]_vars

\* After the failure of a worker a later connection was accepted and served:
\* it got the whole response and had its data relayed in both directions.
C7_Witness ==
    \E s, t \in Session :
        /\ s < t
        /\ pc[s] = "failed" /\ failure[s] = "decode"
        /\ listener = "accepting"
        /\ ctlOut[t] = Encode(Connected(t))
        /\ out[t]["remote"] # <<>> /\ out[t]["proxy"] # <<>>

\* C8: a failure to accept a control connection does not stop the accept
\* loop: the listener never ends with a panic from a failed accept.
C8_AcceptFailureKeepsLoop ==
    listener # "panicked"

\* C9: once the request of a session has been read and decoded, or its
\* worker has ended, its control stream is never read again: what is unread
\* on it stays unread, and the address decoded stays the address.
C9_SingleRequest ==
    [][\A s \in Session :
          (remote_addr[s] # "none" \/ pc[s] \in EndedPcs) =>
              /\ ctl'[s] = ctl[s]
              /\ remote_addr'[s] = remote_addr[s]]_vars

C9_Witness ==
    \E s \in Session :
        /\ ctl[s].extra > 0 /\ ctl[s].len = 0
        /\ out[s]["remote"] # <<>>
        /\ pc[s] = "done"

\* The bytes of the data streams of session s.
BytesOf(s) == Range(ProxyStream(s)) \cup Range(RemoteStream(s))

\* C10: every byte written to the remote of a session was read from the
\* proxy stream of that session, every byte written to its proxy stream was
\* read from its remote, and no byte of one session is held or written by
\* another.
C10_SessionIsolation ==
    \A s \in Session :
        /\ Range(out[s]["remote"]) \subseteq Range(SubSeq(ProxyStream(s), 1, inPos[s]["proxy"]))
        /\ Range(out[s]["proxy"]) \subseteq Range(SubSeq(RemoteStream(s), 1, inPos[s]["remote"]))
        /\ \A t \in Session \ {s} :
              (Range(chunk[s]) \cup Range(out[s]["remote"]) \cup Range(out[s]["proxy"]))
                  \cap BytesOf(t) = {}

C10_Witness ==
    \E s, t \in Session :
        /\ s # t
        /\ pc[s] \in RelayPcs /\ pc[t] \in RelayPcs
        /\ out[s]["remote"] # <<>> /\ out[t]["proxy"] # <<>>

\* The sockets of session s that are still in use.
OpenSocks(s) == {k \in DOMAIN sock[s] : sock[s][k] \in {"open", "listening"}}

\* C11: no socket of a worker that has ended is still open, and once the
\* remote has closed its connection (a read of it returned 0) the data
\* socket that faces the enclave is open no more.
C11_SocketsClosedAtEnd ==
    \A s \in Session :
        /\ pc[s] \in EndedPcs => OpenSocks(s) = {}
        /\ eof[s]["remote"] => sock[s].proxy # "open"

\* C12: whatever has been written of a response is the beginning of a
\* Connected response, written when the connection to the remote had
\* succeeded and the ephemeral listener was bound; the response carries the
\* port of the session's own ephemeral listener, on which the data
\* connection is accepted, and the local and the peer end of the session's
\* control stream.
C12_ConnectedResponse ==
    \A s \in Session :
        /\ ctlOut[s] # <<>> =>
              /\ ctlOut[s][1] = "Connected"
              /\ sock[s].remote # "none"
              /\ sock[s].proxy_server # "none"
              /\ port[s] \in Ports
        /\ Len(ctlOut[s]) >= 2 =>
              /\ ctlOut[s][2].port = port[s]
              /\ ctlOut[s][2].local_addr = LocalAddr(s)
              /\ ctlOut[s][2].peer_addr = PeerAddr(s)
        /\ failure[s] \in {"read_request", "decode", "connect", "bind"} =>
              ctlOut[s] = <<>>

C12_Witness ==
    \E s \in Session :
        /\ Len(ctlOut[s]) = 2
        /\ sock[s].proxy = "open" /\ sock[s].proxy_server = "listening"
        /\ remote_addr[s] = "remote_b"

\* The request on the control stream c has a length that is a positive
\* multiple of BUFF_SIZE, is still to be decoded, and nothing follows it.
FramedExactly(c) == c.len > 0 /\ c.len % BUFF_SIZE = 0 /\ c.extra = 0

Closed(s) == eof[s]["proxy"] \/ eof[s]["remote"]

\* C14: unless a read or a write fails or a stream is closed in an orderly
\* way, the n-th byte to become readable on a data stream of a session is
\* eventually written to the opposite stream, in either direction.
C14_ForwardingLiveness ==
    \A s \in Session : \A x \in Sides : \A n \in 1..MaxData :
        (arrived[s][x] >= n) ~>
            \/ Len(out[s][Other(x)]) >= n
            \/ failure[s] \in {"read", "write"}
            \/ Closed(s)

\* What does hold of the forwarding: the same unless, besides, the wait for
\* readiness fails.
ForwardingLivenessUnlessSelectFails ==
    \A s \in Session : \A x \in Sides : \A n \in 1..MaxData :
        (arrived[s][x] >= n) ~>
            \/ Len(out[s][Other(x)]) >= n
            \/ failure[s] \in {"read", "write", "select"}
            \/ Closed(s)

\* Bytes were forwarded in both directions with no failure and no close.
ForwardedBothWays ==
    \E s \in Session :
        /\ arrived[s]["proxy"] = 1 /\ arrived[s]["remote"] = 1
        /\ Len(out[s]["remote"]) = 1 /\ Len(out[s]["proxy"]) = 1
        /\ failure[s] = "none" /\ ~Closed(s)
        /\ pc[s] = "select"

\* The connection that will be session t is the next to reach the listener.
NextToCome(t) == /\ pc[t] = "none"
                 /\ \A u \in Session : u < t => pc[u] # "none"

\* The listener has met no failure of its own: every connection that came
\* was accepted and given a worker.
ListenerUnfailed == \A u \in Session : pc[u] \notin {"unspawned", "unaccepted"}

C16_OneEphemeralListener ==
    /\ [](\A s, t \in Session :
            (/\ s # t
             /\ sock[s].proxy_server = "listening"
             /\ sock[t].proxy_server = "listening") => port[s] # port[t])
    /\ [][\A s \in Session :
            /\ sock[s].proxy_server # "none" =>
                  /\ port'[s] = port[s]
                  /\ sock'[s].proxy_server \in {sock[s].proxy_server, "closed"}
                  /\ pc'[s] # "bind"
            /\ sock[s].proxy_server = "closed" => sock'[s].proxy_server = "closed"
            /\ sock[s].proxy # "none" =>
                  /\ sock'[s].proxy \in {sock[s].proxy, "closed"}
                  /\ pc'[s] # "accept"
            /\ sock[s].proxy = "closed" => sock'[s].proxy = "closed"]_vars

\* Two sessions relay at once, each on the data connection accepted on its
\* own port.
C16_Witness ==
    \E s, t \in Session :
        /\ s # t
        /\ sock[s].proxy = "open" /\ sock[t].proxy = "open"
        /\ sock[s].proxy_server = "listening" /\ sock[t].proxy_server = "listening"
        /\ port[s] # port[t]
        /\ out[s]["remote"] # <<>> /\ out[t]["remote"] # <<>>

\* The read of the control stream of session s that a step has made returned
\* n bytes.
ReadReturned(s, n) == /\ pc[s] = "read_request"
                      /\ ctl'[s].reads = Append(ctl[s].reads, n)

\* C17: while the request is read every read so far has returned BUFF_SIZE
\* bytes, which are all in the buffer; a read of BUFF_SIZE bytes is followed
\* by another read, and the first read of fewer bytes hands the decoder all
\* the bytes read, the last ones included: when these are the whole request
\* (as they are when a request of fewer than BUFF_SIZE bytes arrives in one
\* read, or when every read but the last returns BUFF_SIZE bytes) and
\* nothing more, the request is decoded as it was sent, and otherwise the
\* decoder fails.
C17_RequestFraming ==
    [][\A s \in Session : \A n \in 0..BUFF_SIZE :
          ReadReturned(s, n) =>
              LET c == ctl[s] IN
              /\ \A i \in 1..Len(c.reads) : c.reads[i] = BUFF_SIZE
              /\ c.pos = BUFF_SIZE * Len(c.reads)
              /\ n = BUFF_SIZE =>
                    /\ pc'[s] = "read_request"
                    /\ ctl'[s].pos = c.pos + BUFF_SIZE
              /\ (n < BUFF_SIZE /\ c.wellFormed /\ c.pos + n = c.len) =>
                    /\ pc'[s] = "connect"
                    /\ remote_addr'[s] = c.addr
              /\ (n < BUFF_SIZE /\ ~(c.wellFormed /\ c.pos + n = c.len)) =>
                    /\ pc'[s] = "failed"
                    /\ failure'[s] = "decode"
                    /\ ctl'[s].pos = c.pos + n]_vars

\* A request of BUFF_SIZE - 1 bytes was decoded after one read, and one of
\* more than two buffers after three reads.
C17_Witness ==
    \E s \in Session :
        /\ remote_addr[s] # "none"
        /\ \/ ctl[s].reads = <<BUFF_SIZE - 1>>
           \/ ctl[s].reads = <<BUFF_SIZE, BUFF_SIZE, 30>>
        /\ pc[s] = "select"

\* C18: a worker that waits for readiness or is about to read holds no
\* chunk, and all it has read from either stream it has written to the
\* other; a worker that is writing holds one chunk, of at most
\* PROXY_BUFF_SIZE bytes, which is all that it has read and not written.
C18_OneChunkInFlight ==
    \A s \in Session :
        /\ pc[s] \in {"select", "read_proxy", "read_remote"} =>
              /\ chunk[s] = <<>>
              /\ \A x \in Sides : Len(out[s][Other(x)]) = inPos[s][x]
        /\ \A x \in Sides :
              pc[s] = WritePc(x) =>
                  /\ chunk[s] # <<>>
                  /\ Len(chunk[s]) <= PROXY_BUFF_SIZE
                  /\ inPos[s][Other(x)] = Len(out[s][x]) + Len(chunk[s])
                  /\ inPos[s][x] = Len(out[s][Other(x)])

\* A first chunk went from the proxy to the remote, and a chunk read from
\* the remote is being written to the proxy.
C18_Witness ==
    \E s \in Session :
        /\ pc[s] = "write_proxy"
        /\ Len(chunk[s]) = 1
        /\ Len(out[s]["remote"]) = 1 /\ out[s]["proxy"] = <<>>

\* C19: a worker that waits for the data connection of its session has
\* written the whole of the encoded Connected response to the control
\* stream.
C19_WholeResponseWritten ==
    \A s \in Session :
        pc[s] = "accept" => ctlOut[s] = Encode(Connected(s))

\* C20: a read of no bytes is followed by no write; a read of bytes is
\* followed by the write of just these bytes; whenever a write is issued it
\* is given at least one byte, and what it adds to a stream is the chunk
\* given, or the beginning of it when the write fails.
C20_NoEmptyWrite ==
    [][\A s \in Session : \A x \in Sides :
          /\ (pc[s] = ReadPc(x) /\ inPos'[s][x] = inPos[s][x]) =>
                /\ pc'[s] \notin {"write_proxy", "write_remote"}
                /\ out'[s] = out[s]
          /\ (pc[s] = ReadPc(x) /\ inPos'[s][x] # inPos[s][x]) =>
                /\ pc'[s] = WritePc(Other(x))
                /\ chunk'[s] = SubSeq(Stream(s, x), inPos[s][x] + 1, inPos'[s][x])
          /\ pc[s] = WritePc(x) => chunk[s] # <<>>
          /\ out'[s][x] # out[s][x] =>
                /\ pc[s] = WritePc(x)
                /\ IsPrefix(out'[s][x], out[s][x] \o chunk[s])
                /\ pc'[s] \in RelayPcs => out'[s][x] = out[s][x] \o chunk[s]]_vars

\* The remote has closed after the relay wrote bytes to it: the read of no
\* bytes has added nothing to the proxy stream.
C20_Witness ==
    \E s \in Session :
        /\ eof[s]["remote"] /\ ~eof[s]["proxy"]
        /\ out[s]["remote"] # <<>> /\ out[s]["proxy"] = <<>>
        /\ pc[s] = "select"

\* C21: the conversion yields Ok if and only if the raw response came
\* without error, holds the variant of the request's kind and that
\* variant's error code is 0, and Ok carries that very body; a variant of
\* the kind with another error code yields the AesmCode error of that code
\* and no body; a response that failed or lacks the variant yields the
\* AesmBadResponse error naming the response expected.
C21_TypedResponse ==
    result # NoResult =>
        LET matching == res.tag = "Ok" /\ res.msg[request].present
            code == res.msg[request].errorCode
        IN  /\ result.tag \in {"Ok", "Err"}
            /\ result.tag = "Ok" <=> (matching /\ code = 0)
            /\ result.tag = "Ok" =>
                  /\ result.body = res.msg[request]
                  /\ result.body.of = request
                  /\ result.body.errorCode = 0
                  /\ result.error = NoError
            /\ (matching /\ code # 0) =>
                  /\ result.error.kind = "AesmCode"
                  /\ result.error.code = code
                  /\ result.body = NoBody
            /\ ~matching =>
                  /\ result.error.kind = "AesmBadResponse"
                  /\ result.error.expected = ResponseName(request)
                  /\ result.body = NoBody

\* A get_quote request was answered by a response whose getQuote variant
\* has a non-zero error code, beside a successful variant of another kind:
\* the caller got the AesmCode error.
C21_Witness ==
    /\ request = "getQuote"
    /\ res.tag = "Ok"
    /\ res.msg["getQuote"] = Body("getQuote", 1)
    /\ res.msg["initQuote"] = Body("initQuote", 0)
    /\ result = Err(aesm_code(1))

====
